---- MODULE Spec2Model ----
(***************************************************************************)
(* Daily Task Tracker: the CSV-backed record store (load_data, save_data,  *)
(* _ensure_columns), the form upsert and the bulk-edit save of main(), the *)
(* reminder mail (send_daily_reminder) and the scheduler loop.             *)
(*                                                                         *)
(* A DataFrame is [cols |-> <<column names>>, rows |-> <<row, ...>>], a    *)
(* row being a function from column name to cell.  A cell is a tagged      *)
(* value [k |-> kind, v |-> text]: what pandas holds after type inference  *)
(* (str, int, float, NaN, Timestamp, NaT).  The file is the CSV text, one  *)
(* tuple of cell texts per line, the header first.                         *)
(***************************************************************************)
EXTENDS Integers, Sequences, FiniteSets, TLC

VARIABLES
    file,      \* tasks.csv: [exists |-> BOOLEAN, lines |-> <<<<text, ...>>, ...>>]
    last,      \* the last script run of the sequential UI: what it did and its table
    pc,        \* per session: where its script run stands
    df,        \* per session: main()'s local df
    wr,        \* per session: lines of the open to_csv handle not yet written
    subm,      \* per session: the row its form submitted in this run ("none" before)
    cfg,       \* the reminder's environment (EMAIL_SENDER, EMAIL_PASSWORD, RECIPIENTS, secrets)
    mail,      \* send_daily_reminder's call: its position and what it did
    sched      \* scheduler.py: clock, the job's next run, the loop's position

vars == <<file, last, pc, df, wr, subm, cfg, mail, sched>>

Range(s) == {s[i] : i \in DOMAIN s}

(***************************************************************************)
(* CONFIG                                                                  *)
(***************************************************************************)
USERS == <<"Shaurya", "Mukund", "Anjan", "Pranjal", "Lekha">>

\* The columns _ensure_columns guarantees, in the order of its dict.
REQUIRED == <<"user", "date", "task", "status", "deadline">>

\* The columns read with parse_dates and back-filled as datetime64[ns].
DATE_COLS == {"date", "deadline"}

STATUS_OPTIONS == <<"Yet to Start", "In Progress", "Completed">>

(***************************************************************************)
(* Cells                                                                   *)
(***************************************************************************)
Str(s) == [k |-> "str", v |-> s]
I64(s) == [k |-> "int", v |-> s]
F64(s) == [k |-> "float", v |-> s]
Ts(s) == [k |-> "ts", v |-> s]
NaN == [k |-> "nan", v |-> ""]
NaT == [k |-> "nat", v |-> ""]

\* The calendar days of the model, in to_csv's text for a datetime64 column.
Dates == {"2024-01-01", "2024-01-02"}

\* str(Timestamp): to_csv's text for a Timestamp held in an object column.
DateTimeText(d) == d \o " 00:00:00"

\* The texts read_csv reads as missing (pandas' default na_values, those the
\* model's texts can meet).
NA_VALUES == {"", "NA", "N/A", "NaN", "nan", "NULL", "null", "None", "<NA>", "#N/A", "n/a"}

\* The texts of the model that read_csv's inference reads as numbers.
IntTexts == {"7"}
FloatText(t) == t \o ".0"
FloatTexts == {FloatText(t) : t \in IntTexts}

\* text_input's value stripped (str.strip), for the texts of the model.
Strip(s) ==
    CASE s = " " -> ""
      [] s = " a" -> "a"
      [] OTHER -> s

(***************************************************************************)
(* DATA HELPERS: read_csv / to_csv                                         *)
(***************************************************************************)
NoFile == [exists |-> FALSE, lines |-> <<>>]

Ok(d) == [ok |-> TRUE, err |-> "", df |-> d]
Raise(e) == [ok |-> FALSE, err |-> e, df |-> [cols |-> <<>>, rows |-> <<>>]]

\* read_csv's inference on one column: a cell in na_values is NaN; the column
\* is int64 when every cell is an integer, float64 when every cell is a number
\* or missing, object (the texts as they are) otherwise.
InferColumn(texts) ==
    LET idx == DOMAIN texts
        isNA(i) == texts[i] \in NA_VALUES
        allInt == \A i \in idx : texts[i] \in IntTexts
        allNum == \A i \in idx : isNA(i) \/ texts[i] \in IntTexts \cup FloatTexts
    IN [i \in idx |->
          IF isNA(i) THEN NaN
          ELSE IF allInt THEN I64(texts[i])
          ELSE IF allNum
               THEN F64(IF texts[i] \in IntTexts THEN FloatText(texts[i]) ELSE texts[i])
               ELSE Str(texts[i])]

IsDateText(t) == t \in Dates \/ \E d \in Dates : t = DateTimeText(d)
DateOf(t) == IF t \in Dates THEN t ELSE CHOOSE d \in Dates : t = DateTimeText(d)

\* parse_dates on one column: Timestamps (NaT where missing) when every cell
\* parses, the column as inferred otherwise.
ParseDateColumn(texts) ==
    IF \A i \in DOMAIN texts : texts[i] \in NA_VALUES \/ IsDateText(texts[i])
    THEN [i \in DOMAIN texts |->
            IF texts[i] \in NA_VALUES THEN NaT ELSE Ts(DateOf(texts[i]))]
    ELSE InferColumn(texts)

\* pd.read_csv(DATA_FILE, parse_dates=["date", "deadline"]).
ReadCsv(f) ==
    IF f.lines = <<>> THEN Raise("EmptyDataError")
    ELSE
      LET header == f.lines[1]
          n == Len(f.lines) - 1
          texts(j) == [i \in 1..n |-> f.lines[i + 1][j]]
          parsed == [j \in DOMAIN header |->
                        IF header[j] \in DATE_COLS THEN ParseDateColumn(texts(j))
                        ELSE InferColumn(texts(j))]
          pos == [c \in Range(header) |-> CHOOSE j \in DOMAIN header : header[j] = c]
      IN IF ~(DATE_COLS \subseteq Range(header))
         THEN Raise("ValueError: Missing column provided to 'parse_dates'")
         ELSE Ok([cols |-> header,
                  rows |-> [i \in 1..n |-> [c \in Range(header) |-> parsed[pos[c]][i]]]])

MissingValue(c) == IF c \in DATE_COLS THEN NaT ELSE NaN

\* _ensure_columns: every required column the frame lacks is added at the end,
\* in the dict's order, empty.
EnsureColumns(d) ==
    LET missing == SelectSeq(REQUIRED, LAMBDA c : c \notin Range(d.cols))
    IN [cols |-> d.cols \o missing,
        rows |-> [i \in DOMAIN d.rows |->
                    [c \in Range(d.cols) \cup Range(missing) |->
                        IF c \in Range(d.cols) THEN d.rows[i][c] ELSE MissingValue(c)]]]

EmptyFrame == [cols |-> <<>>, rows |-> <<>>]

\* load_data().
LoadData(f) ==
    IF f.exists
    THEN LET r == ReadCsv(f) IN IF r.ok THEN Ok(EnsureColumns(r.df)) ELSE r
    ELSE Ok(EnsureColumns(EmptyFrame))

\* A column is datetime64 when it holds only Timestamps and NaT.
IsDatetimeColumn(d, c) == \A i \in DOMAIN d.rows : d.rows[i][c].k \in {"ts", "nat"}

\* to_csv's text of one cell: missing values as the empty text, a Timestamp as
\* its date in a datetime64 column and as str(Timestamp) in an object column.
FormatCell(x, datetimeColumn) ==
    CASE x.k \in {"nan", "nat"} -> ""
      [] x.k = "ts" -> IF datetimeColumn THEN x.v ELSE DateTimeText(x.v)
      [] OTHER -> x.v

\* df.to_csv(index=False): the header, then one line per row.
ToCsvLines(d) ==
    <<d.cols>> \o
    [i \in DOMAIN d.rows |->
        [j \in DOMAIN d.cols |->
            FormatCell(d.rows[i][d.cols[j]], IsDatetimeColumn(d, d.cols[j]))]]

\* save_data(df) with no other writer: the file is the frame's CSV text.
SaveData(d) == [exists |-> TRUE, lines |-> ToCsvLines(d)]

(***************************************************************************)
(* STREAMLIT UI: main()                                                    *)
(***************************************************************************)
\* A form submission: the date, text, status and deadline widgets' values.
FormInput(d, t, st, dl) == [date |-> d, task |-> t, status |-> st, deadline |-> dl]

\* if submitted and task_name.strip()
AcceptsBlankOnlyEmpty(t) == t # ""
Accepts(t) == Strip(t) # ""

\* mask: the rows whose user, date and task equal the submitted ones.
KeyMaskIgnoringDate(d, u, in) ==
    {i \in DOMAIN d.rows :
        d.rows[i]["user"] = Str(u) /\ d.rows[i]["task"] = Str(in.task)}
KeyMask(d, u, in) ==
    {i \in DOMAIN d.rows :
        /\ d.rows[i]["user"] = Str(u)
        /\ d.rows[i]["date"] = Ts(in.date)
        /\ d.rows[i]["task"] = Str(in.task)}

\* df.loc[mask, ["status", "deadline"]] = [status, deadline_pd]
UpdateRows(d, mask, in) ==
    [d EXCEPT !.rows =
        [i \in DOMAIN d.rows |->
            IF i \in mask
            THEN [d.rows[i] EXCEPT !["status"] = Str(in.status),
                                   !["deadline"] = Ts(in.deadline)]
            ELSE d.rows[i]]]

\* df.loc[len(df)] = [active_user, task_date_pd, task_name, status, deadline_pd]:
\* the list is assigned by position, in the order of the frame's columns.
AppendRow(d, u, in) ==
    LET vals == <<Str(u), Ts(in.date), Str(in.task), Str(in.status), Ts(in.deadline)>>
        pos(c) == CHOOSE j \in DOMAIN d.cols : d.cols[j] = c
    IN [d EXCEPT !.rows = Append(d.rows, [c \in Range(d.cols) |-> vals[pos(c)]])]

\* The form's handler on the loaded frame: the frame after it, what it did,
\* and whether it called save_data.
SubmitForm(d, u, in) ==
    IF ~Accepts(in.task) THEN [df |-> d, op |-> "blank", saved |-> FALSE]
    ELSE IF KeyMask(d, u, in) # {}
         THEN [df |-> UpdateRows(d, KeyMask(d, u, in), in), op |-> "update", saved |-> TRUE]
         ELSE [df |-> AppendRow(d, u, in), op |-> "append", saved |-> TRUE]

\* user_df's rows, before the sort: df[df["user"] == active_user]
UserRows(d, u) == SelectSeq(d.rows, LAMBDA r : r["user"] = Str(u))

\* other_df = df[df["user"] != active_user]
OtherRowsDroppingBlankUser(d, u) ==
    SelectSeq(d.rows, LAMBDA r : r["user"].k = "str" /\ r["user"] # Str(u))
OtherRows(d, u) == SelectSeq(d.rows, LAMBDA r : r["user"] # Str(u))

\* edited_df["user"] = active_user; pd.concat([other_df, edited_df], ignore_index=True)
BulkUpdated(d, u, edited) ==
    [cols |-> d.cols,
     rows |-> OtherRows(d, u) \o
              [i \in DOMAIN edited |-> [edited[i] EXCEPT !["user"] = Str(u)]]]

(***************************************************************************)
(* The sequential UI: one script run of main() per step                    *)
(***************************************************************************)
\* Bounds: the rows a table may hold, the rows an edited view may hold.
MaxRows == 2
MaxEdit == 1

\* The users, descriptions and statuses the sessions of the model enter.
ActiveUsers == {USERS[1], USERS[2]}
\* The form's submissions: one submission, and the submissions that differ from
\* it in the date, in the description (by whitespace, by a numeric text), or in
\* status and deadline; and the blank descriptions.
BaseInput == FormInput("2024-01-01", "a", STATUS_OPTIONS[1], "2024-01-01")
FormInputs ==
    {BaseInput,
     [BaseInput EXCEPT !.date = "2024-01-02"],
     [BaseInput EXCEPT !.task = " a"],
     [BaseInput EXCEPT !.task = "7"],
     [BaseInput EXCEPT !.status = STATUS_OPTIONS[3], !.deadline = "2024-01-02"],
     [BaseInput EXCEPT !.task = ""],
     [BaseInput EXCEPT !.task = " "]}

SeqsUpTo(S, n) == UNION {[1..k -> S] : k \in 0..n}

\* Rows the data editor can hold besides those displayed: a row added and left
\* blank, a row filled in (its user cell typed over with another name).
EditRows ==
    {[user |-> NaN, date |-> NaT, task |-> NaN, status |-> NaN, deadline |-> NaT],
     [user |-> Str(USERS[2]), date |-> Ts("2024-01-01"), task |-> Str("a"),
      status |-> Str(STATUS_OPTIONS[2]), deadline |-> Ts("2024-01-02")]}

\* st.data_editor(user_df, num_rows="dynamic"): the displayed rows kept or all
\* deleted, then up to MaxEdit rows added.
EditedViews(d, u) ==
    {kept \o added : kept \in {UserRows(d, u), <<>>}, added \in SeqsUpTo(EditRows, MaxEdit)}

NoInput == FormInput("", "", "", "")
NoRun == [op |-> "none", user |-> "", sub |-> NoInput, edited |-> <<>>,
          after |-> EmptyFrame, saved |-> FALSE]

\* A tasks.csv of the tracker before it had users: no user column.
LegacyFile ==
    [exists |-> TRUE,
     lines |-> << <<"date", "task", "status", "deadline">>,
                  <<"2024-01-01", "a", "Completed", "2024-01-02">> >>]

Idle == /\ pc = 0 /\ df = 0 /\ wr = 0 /\ subm = 0 /\ cfg = 0 /\ mail = 0 /\ sched = 0

\* A script run with the form submitted: lines 106-132.  ld is load_data()'s
\* result at line 106.
RunSubmit(ld, u, in) ==
    \E r \in {SubmitForm(ld.df, u, in)} :
       /\ ld.ok
       /\ Len(r.df.rows) <= MaxRows
       /\ file' = IF r.saved THEN SaveData(r.df) ELSE file
       /\ last' = [op |-> r.op, user |-> u, sub |-> in, edited |-> <<>>,
                   after |-> r.df, saved |-> r.saved]
       /\ UNCHANGED <<pc, df, wr, subm, cfg, mail, sched>>

\* A script run with "Save changes" clicked: lines 106, 136-151.
RunBulk(ld, u, edited) ==
    \E upd \in {BulkUpdated(ld.df, u, edited)} :
       /\ ld.ok
       /\ Len(upd.rows) <= MaxRows
       /\ file' = SaveData(upd)
       /\ last' = [op |-> "bulk", user |-> u, sub |-> NoInput, edited |-> edited,
                   after |-> upd, saved |-> TRUE]
       /\ UNCHANGED <<pc, df, wr, subm, cfg, mail, sched>>

FormStep ==
    \E ld \in {LoadData(file)} :
       \E u \in ActiveUsers, in \in FormInputs : RunSubmit(ld, u, in)
BulkStep ==
    \E ld \in {LoadData(file)} :
       \E u \in ActiveUsers :
          \E edited \in EditedViews(ld.df, u) : RunBulk(ld, u, edited)

Init == /\ file \in {NoFile, LegacyFile} /\ last = NoRun /\ Idle
Next == FormStep \/ BulkStep
Spec == Init /\ [][Next]_vars

(***************************************************************************)
(* Claims on the sequential UI                                             *)
(***************************************************************************)
FormOps == {"append", "update", "blank"}

\* Row r has the submitted key: exact equality on user, date and description.
HasKey(r, u, in) ==
    r["user"] = Str(u) /\ r["date"] = Ts(in.date) /\ r["task"] = Str(in.task)

\* The row a submission asks to store.
SubmittedRow(u, in) ==
    [user |-> Str(u), date |-> Ts(in.date), task |-> Str(in.task),
     status |-> Str(in.status), deadline |-> Ts(in.deadline)]

\* C1: a non-blank submission whose key matches no row of the loaded table
\* grows the table by exactly one row, whose user, date, task, status and
\* deadline are the submitted ones; every earlier row is unchanged and the file
\* saved holds exactly this table.
C1_AppendsSubmittedRow ==
    [][(last'.op \in FormOps /\ Strip(last'.sub.task) # "")
        => \A before \in {LoadData(file).df}, after \in {last'.after} :
             (\A i \in DOMAIN before.rows : ~HasKey(before.rows[i], last'.user, last'.sub))
             => /\ Len(after.rows) = Len(before.rows) + 1
                /\ after.rows[Len(after.rows)] = SubmittedRow(last'.user, last'.sub)
                /\ \A i \in DOMAIN before.rows : after.rows[i] = before.rows[i]
                /\ file' = SaveData(after)]_vars

\* C2: a non-blank submission whose key matches a row of the loaded table sets
\* the status and deadline of the matching rows to the submitted values and
\* nothing else: user, date and task of those rows, every row with another
\* key, the columns and the number of rows are as loaded.
C2_UpdatesOnlyMatchingRows ==
    [][(last'.op \in FormOps /\ Strip(last'.sub.task) # "")
        => \A before \in {LoadData(file).df}, after \in {last'.after} :
             (\E i \in DOMAIN before.rows : HasKey(before.rows[i], last'.user, last'.sub))
             => /\ Len(after.rows) = Len(before.rows)
                /\ after.cols = before.cols
                /\ \A i \in DOMAIN before.rows :
                      IF HasKey(before.rows[i], last'.user, last'.sub)
                      THEN after.rows[i] =
                             [before.rows[i] EXCEPT !["status"] = Str(last'.sub.status),
                                                    !["deadline"] = Ts(last'.sub.deadline)]
                      ELSE after.rows[i] = before.rows[i]
                /\ file' = SaveData(after)]_vars

\* An update happened with another row in the table, and the matching row now
\* carries the submitted status and deadline.
C2_Witness ==
    /\ last.op = "update"
    /\ \E i, j \in DOMAIN last.after.rows :
          /\ HasKey(last.after.rows[i], last.user, last.sub)
          /\ last.after.rows[i]["status"] = Str(last.sub.status)
          /\ last.after.rows[i]["deadline"] = Ts(last.sub.deadline)
          /\ ~HasKey(last.after.rows[j], last.user, last.sub)

\* C3: a bulk save writes a table of (rows of the loaded table whose user
\* differs from the active user) + (rows of the edited view) rows: the other
\* users' rows first, each with its five fields as loaded, then the edited
\* view's rows, each with the active user as its user.
C3_BulkSaveKeepsOtherUsers ==
    [][last'.op = "bulk"
        => \A before \in {LoadData(file).df}, after \in {last'.after} :
             \A others \in {SelectSeq(before.rows, LAMBDA r : r["user"] # Str(last'.user))} :
                /\ Len(after.rows) = Len(others) + Len(last'.edited)
                /\ SubSeq(after.rows, 1, Len(others)) = others
                /\ \A j \in 1..Len(last'.edited) :
                      /\ after.rows[Len(others) + j]["user"] = Str(last'.user)
                      /\ \A c \in Range(REQUIRED) \ {"user"} :
                            after.rows[Len(others) + j][c] = last'.edited[j][c]
                /\ file' = SaveData(after)
                /\ Len(file'.lines) = 1 + Len(others) + Len(last'.edited)]_vars

\* A bulk save of a non-empty edited view happened with a row that is not the
\* active user's in the table.
C3_Witness ==
    /\ last.op = "bulk"
    /\ Len(last.edited) >= 1
    /\ \E i \in DOMAIN last.after.rows : last.after.rows[i]["user"] # Str(last.user)

C9_FormKeysUnique ==
    file.exists =>
        \A i, j \in 2..Len(file.lines) :
            i # j => \E c \in 1..3 : file.lines[i][c] # file.lines[j][c]

\* The form path alone, from no file.
InitForm == /\ file = NoFile /\ last = NoRun /\ Idle
SpecForm == InitForm /\ [][FormStep]_vars
(***************************************************************************)
(* The record store alone: load_data() on a file, save_data() then         *)
(* load_data() on a table                                                  *)
(***************************************************************************)
\* The text a file of the model holds in each column.
SampleText(c) ==
    CASE c = "user" -> USERS[1]
      [] c = "date" -> "2024-01-01"
      [] c = "task" -> "a"
      [] c = "status" -> STATUS_OPTIONS[3]
      [] c = "deadline" -> "2024-01-02"

\* The files load_data() meets: none, or one that holds some of the five
\* columns (in their order) and no row or one row.
StoreHeaders ==
    {SelectSeq(REQUIRED, LAMBDA c : c \in S) : S \in (SUBSET Range(REQUIRED)) \ {{}}}
StoreFile(h, n) ==
    [exists |-> TRUE,
     lines |-> <<h>> \o [i \in 1..n |-> [j \in DOMAIN h |-> SampleText(h[j])]]]
StoreFiles == {NoFile} \cup {StoreFile(h, n) : h \in StoreHeaders, n \in {0, 1}}

\* The tables saved: five columns, descriptions all-ASCII and non-empty.
StoreTasks == {"a", " a", "7", "NA"}
StoreRows ==
    {SubmittedRow(u, [BaseInput EXCEPT !.task = t]) : u \in ActiveUsers, t \in StoreTasks}
StoreTables == {[cols |-> REQUIRED, rows |-> rs] : rs \in SeqsUpTo(StoreRows, MaxRows)}

NoCall == [op |-> "none", table |-> EmptyFrame, res |-> Ok(EmptyFrame)]

\* load_data() on the file as it is.
StoreLoad ==
    /\ last' = [op |-> "load", table |-> EmptyFrame, res |-> LoadData(file)]
    /\ UNCHANGED <<file, pc, df, wr, subm, cfg, mail, sched>>

\* save_data(t) followed by load_data().
StoreRoundTrip(t) ==
    /\ file' = SaveData(t)
    /\ last' = [op |-> "roundtrip", table |-> t, res |-> LoadData(SaveData(t))]
    /\ UNCHANGED <<pc, df, wr, subm, cfg, mail, sched>>

InitStore == /\ file \in StoreFiles /\ last = NoCall /\ Idle
NextStore == StoreLoad \/ \E t \in StoreTables : StoreRoundTrip(t)
SpecStore == InitStore /\ [][NextStore]_vars

\* C4: load_data() never fails for absent data: with no file it returns the
\* empty table of exactly the five columns; with a file that lacks some of
\* them it returns the file's rows, the cells of the file's columns as the
\* file has them and every missing column added empty.
C4_LoadNeverFails ==
    last.op = "load" =>
        /\ last.res.ok
        /\ ~file.exists => last.res.df = [cols |-> REQUIRED, rows |-> <<>>]
        /\ file.exists =>
              /\ Range(last.res.df.cols) = Range(REQUIRED)
              /\ Len(last.res.df.rows) = Len(file.lines) - 1
              /\ \A i \in DOMAIN last.res.df.rows, c \in Range(REQUIRED) :
                    IF c \in Range(file.lines[1])
                    THEN \E j \in DOMAIN file.lines[1] :
                            /\ file.lines[1][j] = c
                            /\ FormatCell(last.res.df.rows[i][c], TRUE) = file.lines[i + 1][j]
                    ELSE last.res.df.rows[i][c] = MissingValue(c)

\* load_data() returned the rows of a file that lacks columns, the missing
\* ones added empty.
C4_Witness ==
    /\ last.op = "load"
    /\ last.res.ok
    /\ file.exists
    /\ Len(file.lines[1]) < Len(REQUIRED)
    /\ Len(last.res.df.rows) = 1
    /\ last.res.df.rows[1]["user"] = NaN

\* A row as to_csv prints it, cell by cell.
RowText(r) == [c \in Range(REQUIRED) |-> FormatCell(r[c], TRUE)]
Count(rows, t) == Cardinality({i \in DOMAIN rows : RowText(rows[i]) = t})

\* C6: save_data(t) then load_data() returns the same multiset of rows as t,
\* for every five-column table t with all-ASCII, non-empty descriptions.  Two
\* rows count as the same when they print the same (the integer 7 and the text
\* "7" do).
C6_RoundTrip ==
    last.op = "roundtrip" =>
        /\ last.res.ok
        /\ \A t \in {RowText(r) : r \in Range(last.table.rows) \cup Range(last.res.df.rows)} :
              Count(last.res.df.rows, t) = Count(last.table.rows, t)

\* A table with rows was saved and loaded back equal.
C6_Witness ==
    /\ last.op = "roundtrip"
    /\ Len(last.table.rows) = MaxRows
    /\ last.res.ok
    /\ last.res.df = last.table
(***************************************************************************)
(* Two UI sessions on the one file: each script run loads (line 106),      *)
(* handles the form (117-130) and saves (131); to_csv opens the file for   *)
(* writing, which truncates it, and then writes its text from offset 0.    *)
(***************************************************************************)
Sessions == {"A", "B"}
SessionUser(s) == IF s = "A" THEN USERS[1] ELSE USERS[2]
ConcInputs == {BaseInput, [BaseInput EXCEPT !.date = "2024-01-02"]}

\* line 106 in session s; a run whose load raises ends there.
ConcLoad(s) ==
    /\ pc[s] = "idle"
    /\ \E ld \in {LoadData(file)} :
          IF ld.ok
          THEN /\ df' = [df EXCEPT ![s] = ld.df]
               /\ pc' = [pc EXCEPT ![s] = "loaded"]
               /\ subm' = [subm EXCEPT ![s] = NoInput]
          ELSE UNCHANGED <<df, pc, subm>>
    /\ UNCHANGED <<file, last, wr, cfg, mail, sched>>

\* lines 117-130 in session s: the upsert on its own df.
ConcSubmit(s, in) ==
    /\ pc[s] = "loaded"
    /\ \E r \in {SubmitForm(df[s], SessionUser(s), in)} :
          /\ Len(r.df.rows) <= MaxRows
          /\ df' = [df EXCEPT ![s] = r.df]
          /\ pc' = [pc EXCEPT ![s] = IF r.saved THEN "open" ELSE "idle"]
          /\ subm' = [subm EXCEPT ![s] = IF r.saved THEN in ELSE NoInput]
    /\ UNCHANGED <<file, last, wr, cfg, mail, sched>>

\* save_data, first half: to_csv opens DATA_FILE in mode "w" (the file is
\* truncated) and formats the frame.
ConcOpen(s) ==
    /\ pc[s] = "open"
    /\ file' = [exists |-> TRUE, lines |-> <<>>]
    /\ wr' = [wr EXCEPT ![s] = ToCsvLines(df[s])]
    /\ pc' = [pc EXCEPT ![s] = "write"]
    /\ UNCHANGED <<last, df, subm, cfg, mail, sched>>

\* save_data, second half: the text is written from this handle's offset 0 and
\* the handle closed; what another handle wrote beyond its end stays.
ConcWrite(s) ==
    /\ pc[s] = "write"
    /\ file' = [exists |-> TRUE,
                lines |-> wr[s] \o SubSeq(file.lines, Len(wr[s]) + 1, Len(file.lines))]
    /\ last' = wr[s]
    /\ wr' = [wr EXCEPT ![s] = <<>>]
    /\ pc' = [pc EXCEPT ![s] = "idle"]
    /\ UNCHANGED <<df, subm, cfg, mail, sched>>

InitConc ==
    /\ file = NoFile
    /\ last = <<>>
    /\ pc = [s \in Sessions |-> "idle"]
    /\ df = [s \in Sessions |-> EmptyFrame]
    /\ wr = [s \in Sessions |-> <<>>]
    /\ subm = [s \in Sessions |-> NoInput]
    /\ cfg = 0 /\ mail = 0 /\ sched = 0
NextConc ==
    \E s \in Sessions :
        \/ ConcLoad(s)
        \/ \E in \in ConcInputs : ConcSubmit(s, in)
        \/ ConcOpen(s)
        \/ ConcWrite(s)
SpecConc == InitConc /\ [][NextConc]_vars

\* Both sessions have saved their submission and no save is under way.
BothSaved == \A s \in Sessions : pc[s] = "idle" /\ subm[s] # NoInput

\* C7: no interleaving leaves a partially written table: once both sessions'
\* saves are complete, the file is the whole table one of them saved.
C7_NoPartialTable ==
    BothSaved => \E s \in Sessions : file.lines = ToCsvLines(df[s])

\* C7, the lost update: both sessions saved without error, the file is the
\* whole table of the last save, and the record session A submitted is not in it.
C7_LostUpdate ==
    /\ BothSaved
    /\ file.lines = ToCsvLines(df["B"])
    /\ last = file.lines
    /\ \E i \in DOMAIN df["A"].rows : HasKey(df["A"].rows[i], SessionUser("A"), subm["A"])
    /\ \A i \in 2..Len(file.lines) : file.lines[i][1] # SessionUser("A")
(***************************************************************************)
(* EMAIL REMINDER: send_daily_reminder()                                   *)
(***************************************************************************)
\* os.getenv of a variable that is not set.
None == "<None>"

\* EMAIL_SENDER, EMAIL_PASSWORD: not set, set empty, set.
SenderValues == {None, "", "bot@example.com"}
PasswordValues == {None, "", "app-password"}
\* The RECIPIENTS variable as set in the environment.
RecipientValues ==
    {None, "", ",", "a@example.com", ",a@example.com", "a@example.com,b@example.com"}
\* .streamlit/secrets.toml: absent, present without app_url, present with it.
SecretsValues == {"nofile", "nokey", "url"}

\* os.getenv("RECIPIENTS", "").split(",")
RECIPIENTS(env) ==
    CASE env \in {None, ""} -> <<"">>
      [] env = "," -> <<"", "">>
      [] env = "a@example.com" -> <<"a@example.com">>
      [] env = ",a@example.com" -> <<"", "a@example.com">>
      [] env = "a@example.com,b@example.com" -> <<"a@example.com", "b@example.com">>

\* bool(x) of an Optional[str]
Truthy(x) == x \notin {None, ""}

\* EMAIL_SENDER and EMAIL_PASSWORD and any(RECIPIENTS)
Configured(c) ==
    /\ Truthy(c.sender)
    /\ Truthy(c.password)
    /\ \E i \in DOMAIN RECIPIENTS(c.recipients) : RECIPIENTS(c.recipients)[i] # ""

CfgValues ==
    [sender : SenderValues, password : PasswordValues,
     recipients : RecipientValues, secrets : SecretsValues]

NoMail == [pc |-> "idle", network |-> FALSE, to |-> <<>>, log |-> ""]

\* line 69-71: the guard; the skip prints and returns.
MailGuard ==
    /\ mail.pc = "idle"
    /\ mail' = IF Configured(cfg)
               THEN [mail EXCEPT !.pc = "lookup"]
               ELSE [mail EXCEPT !.pc = "returned", !.log = "skip"]
    /\ UNCHANGED <<file, last, pc, df, wr, subm, cfg, sched>>

\* line 74: st.secrets.get("app_url", DEFAULT_DASHBOARD_URL).  With no
\* secrets.toml st.secrets raises (the default covers a missing key only).
MailLookup ==
    /\ mail.pc = "lookup"
    /\ mail' = [mail EXCEPT !.pc = IF cfg.secrets = "nofile" THEN "raised" ELSE "connect"]
    /\ UNCHANGED <<file, last, pc, df, wr, subm, cfg, sched>>

\* line 89: smtplib.SMTP_SSL("smtp.gmail.com", 465) connects, or raises.
MailConnect ==
    /\ mail.pc = "connect"
    /\ \E ok \in BOOLEAN :
          mail' = [mail EXCEPT !.network = TRUE, !.pc = IF ok THEN "login" ELSE "raised"]
    /\ UNCHANGED <<file, last, pc, df, wr, subm, cfg, sched>>

\* line 90: server.login, or it raises.
MailLogin ==
    /\ mail.pc = "login"
    /\ \E ok \in BOOLEAN : mail' = [mail EXCEPT !.pc = IF ok THEN "send" ELSE "raised"]
    /\ UNCHANGED <<file, last, pc, df, wr, subm, cfg, sched>>

\* lines 91-92: server.send_message(msg) to msg["To"], or it raises.
MailSend ==
    /\ mail.pc = "send"
    /\ \E ok \in BOOLEAN :
          mail' = IF ok
                  THEN [mail EXCEPT !.pc = "returned", !.log = "sent",
                                    !.to = RECIPIENTS(cfg.recipients)]
                  ELSE [mail EXCEPT !.pc = "raised"]
    /\ UNCHANGED <<file, last, pc, df, wr, subm, cfg, sched>>

InitReminder ==
    /\ cfg \in CfgValues
    /\ mail = NoMail
    /\ file = NoFile /\ last = NoRun
    /\ pc = 0 /\ df = 0 /\ wr = 0 /\ subm = 0 /\ sched = 0
NextReminder == MailGuard \/ MailLookup \/ MailConnect \/ MailLogin \/ MailSend
SpecReminder == InitReminder /\ [][NextReminder]_vars

\* C5: the call opens the mail connection if and only if sender, credential
\* and at least one recipient are non-empty; in every other configuration it
\* makes no network call and returns normally.
C5_ConnectsIffConfigured ==
    mail.pc \in {"returned", "raised"} =>
        /\ mail.network <=> Configured(cfg)
        /\ ~Configured(cfg) => mail.pc = "returned"

\* With no sender credential the call returned after the skip, no network call made.
C5_Witness ==
    /\ ~Truthy(cfg.password)
    /\ Truthy(cfg.sender)
    /\ mail.pc = "returned"
    /\ mail.log = "skip"
    /\ ~mail.network

(***************************************************************************)
(* scheduler.py                                                            *)
(***************************************************************************)
\* Time in ticks of one sleep (60 s); a day is DayLen ticks, 09:00 is tick
\* RUN_AT of each day, and the clock stops at the end of day MaxDays - 1.
DayLen == 3
RUN_AT == 1
MaxDays == 3

DayOf(t) == t \div DayLen

\* schedule's next run of an every().day.at("09:00") job as of time t: today's
\* 09:00 when that is still ahead, tomorrow's otherwise.
NextRunAfter(t) ==
    IF t % DayLen < RUN_AT THEN DayOf(t) * DayLen + RUN_AT
    ELSE (DayOf(t) + 1) * DayLen + RUN_AT

\* How a call of send_daily_reminder() can end under configuration c.
ReminderOutcomes(c) ==
    IF ~Configured(c) THEN {"skipped"}
    ELSE IF c.secrets = "nofile" THEN {"raised"}
    ELSE {"sent", "raised"}

\* line 11: run_pending().  A due job is run and then rescheduled; schedule
\* does not catch what the job raises, so an exception leaves the while loop.
RunPending ==
    /\ sched.pc = "run_pending"
    /\ IF sched.now >= sched.next
       THEN \E out \in ReminderOutcomes(cfg) :
               sched' = [sched EXCEPT
                           !.pc = IF out = "raised" THEN "dead" ELSE "sleep",
                           !.next = IF out = "raised" THEN @ ELSE NextRunAfter(sched.now),
                           !.runs[DayOf(sched.now)] = @ + 1,
                           !.out = out]
       ELSE sched' = [sched EXCEPT !.pc = "sleep"]
    /\ UNCHANGED <<file, last, pc, df, wr, subm, cfg, mail>>

\* line 12: time.sleep(60).
Sleep ==
    /\ sched.pc = "sleep"
    /\ sched.now + 1 < MaxDays * DayLen
    /\ sched' = [sched EXCEPT !.pc = "run_pending", !.now = @ + 1]
    /\ UNCHANGED <<file, last, pc, df, wr, subm, cfg, mail>>

\* line 8 at start-up, any time of day 0.
InitScheduler ==
    /\ cfg \in CfgValues
    /\ \E t \in 0..(DayLen - 1) :
          sched = [pc |-> "run_pending", now |-> t, next |-> NextRunAfter(t),
                   runs |-> [d \in 0..(MaxDays - 1) |-> 0], out |-> "none"]
    /\ mail = NoMail
    /\ file = NoFile /\ last = NoRun
    /\ pc = 0 /\ df = 0 /\ wr = 0 /\ subm = 0
NextScheduler == RunPending \/ Sleep
SpecScheduler == InitScheduler /\ [][NextScheduler]_vars

\* C8: whatever the reminder did (sent, skipped, raised), the poll loop keeps
\* running, and the reminder is invoked at most once a day.
C8_LoopKeepsRunning ==
    /\ sched.pc # "dead"
    /\ \A d \in DOMAIN sched.runs : sched.runs[d] <= 1

\* The reminder ran on two days in a row and the loop is still polling.
C8_Witness ==
    /\ sched.pc = "sleep"
    /\ \E d \in DOMAIN sched.runs : d + 1 \in DOMAIN sched.runs
                                    /\ sched.runs[d] = 1 /\ sched.runs[d + 1] = 1
====
